---- MODULE Spec2Model ----
(***************************************************************************)
(* unprint: the request layer of the scraping library.                     *)
(*                                                                         *)
(* The module models the limiter registry (getLimiterValue, getLimiter),   *)
(* the browser instance pool (getBrowserInstance, closeBrowser,            *)
(* closeAllBrowsers) and the two request entry points (request,            *)
(* browserRequest) of the most complete variant of the library.            *)
(*                                                                         *)
(* Every async function is cut at its await points: one action runs the    *)
(* synchronous code between two awaits.  External collaborators (the       *)
(* Bottleneck scheduler, the browser automation engine, the HTTP           *)
(* transport) are modelled by their contract, their outcomes being chosen  *)
(* nondeterministically.                                                   *)
(***************************************************************************)
EXTENDS Integers, Sequences, FiniteSets, TLC

(***************************************************************************)
(* Bounds of the model.                                                    *)
(***************************************************************************)
\* number of browser request calls issued in a behaviour of the pool
NumReq == 3
\* number of request calls, plain or browser, issued in a behaviour of the limiter
NumLimited == 2
\* number of plain request calls issued in a behaviour of the plain requests
NumPlain == 2
\* largest clientRetirement value configured (the program's default is 20)
MaxRetirement == 2
\* number of closeAllBrowsers calls in a behaviour
MaxCloseAll == 1
\* number of configure calls made while requests are in flight
MaxConfigure == 1
\* number of elements of a document
NumElems == 2
\* the entries of a source set
MaxSources == 3
\* number of selectors in a selector list
MaxSelectors == 2

(***************************************************************************)
(* Program constants.                                                      *)
(***************************************************************************)
\* settings.limits.default
DefaultInterval == 10
DefaultConcurrency == 10
\* settings.limits.browser
BrowserInterval == 20
BrowserConcurrency == 5
\* options.clientRetirement || 20
DefaultRetirement == 20

Null == "null"

Reqs == 1..NumReq

VARIABLES
    globalOptions,  \* the process-wide configuration object
    configured,     \* number of configure calls made so far
    limiters,       \* registry: <<interval, concurrency>> -> index of its scheduler
    bottleneck,     \* the scheduler instances constructed so far, by identity
    clients,        \* registry (Map): scope key -> index of its client handle
    handle,         \* the client handle objects created so far, by identity
    req,            \* the request calls: position and local variables
    closeAll,       \* the closeAllBrowsers calls made so far and their outcome
    call,           \* a call of a pure function of the library: name and arguments
    returned        \* what that call returned

vars == <<globalOptions, configured, limiters, bottleneck, clients, handle, req, closeAll,
          call, returned>>

\* the variables of pure function calls, which the request layer leaves alone
pure == <<call, returned>>

(***************************************************************************)
(* Objects as functions: a property is defined when it is in the domain.   *)
(***************************************************************************)
Has(o, p) == p \in DOMAIN o

\* merge.all([a, b]): the properties of b override those of a
Merge(a, b) == [p \in (DOMAIN a) \cup (DOMAIN b) |-> IF p \in DOMAIN b THEN b[p] ELSE a[p]]

\* Map.prototype.delete / removal of a property
Without(f, k) == [p \in (DOMAIN f) \ {k} |-> f[p]]

\* deepmerge of two option objects: nested for the limits object (profile or
\* hostname -> properties), the second operand winning on every leaf
MergeLimits(a, b) ==
    [n \in (DOMAIN a) \cup (DOMAIN b) |->
        IF n \in DOMAIN a /\ n \in DOMAIN b THEN Merge(a[n], b[n])
        ELSE IF n \in DOMAIN b THEN b[n] ELSE a[n]]

\* deepmerge of two proxy objects: the hostnames arrays are concatenated
MergeProxy(a, b) ==
    [p \in (DOMAIN a) \cup (DOMAIN b) |->
        IF p = "hostnames" /\ p \in DOMAIN a /\ p \in DOMAIN b THEN a[p] \cup b[p]
        ELSE IF p \in DOMAIN b THEN b[p] ELSE a[p]]

merge(a, b) ==
    [p \in (DOMAIN a) \cup (DOMAIN b) |->
        IF p = "limits" /\ p \in DOMAIN a /\ p \in DOMAIN b THEN MergeLimits(a[p], b[p])
        ELSE IF p = "proxy" /\ p \in DOMAIN a /\ p \in DOMAIN b THEN MergeProxy(a[p], b[p])
        ELSE IF p \in DOMAIN b THEN b[p] ELSE a[p]]

(***************************************************************************)
(* Global options.                                                         *)
(***************************************************************************)
settings ==
    [throwErrors |-> FALSE,
     logErrors |-> TRUE,
     limits |-> [default |-> [interval |-> DefaultInterval, concurrency |-> DefaultConcurrency],
                 browser |-> [interval |-> BrowserInterval, concurrency |-> BrowserConcurrency]]]

(***************************************************************************)
(* Limiter registry.                                                       *)
(***************************************************************************)
\* (mutant) the hostname's configuration is used although it has enable: false
getLimiterValueIgnoringEnable(prop, options, hostname) ==
    IF Has(options, prop)
    THEN options[prop]
    ELSE IF Has(options.limits, hostname) /\ Has(options.limits[hostname], prop)
         THEN options.limits[hostname][prop]
         ELSE options.limits[IF Has(options, "limiter") THEN options.limiter ELSE "default"][prop]

getLimiterValue(prop, options, hostname) ==
    IF Has(options, prop)
    THEN options[prop]
    ELSE IF /\ ~(/\ Has(options.limits, hostname)
                 /\ Has(options.limits[hostname], "enable")
                 /\ options.limits[hostname].enable = FALSE)
            /\ Has(options.limits, hostname)
            /\ Has(options.limits[hostname], prop)
         THEN options.limits[hostname][prop]
         ELSE options.limits[IF Has(options, "limiter") THEN options.limiter ELSE "default"][prop]

\* the (interval, concurrency) tuple getLimiter resolves for a call
LimiterTuple(options, hostname) ==
    <<getLimiterValue("interval", options, hostname),
      getLimiterValue("concurrency", options, hostname)>>

\* (mutant) the registry is not consulted: every call constructs a scheduler
LimiterAlwaysMissing(t) == TRUE

\* !limiters[interval]?.[concurrency]
LimiterMissing(t) == t \notin DOMAIN limiters

\* (mutant) the scheduler is constructed without its concurrency ceiling
NewBottleneckUnlimited(t) == [minTime |-> t[1]]

\* new Bottleneck({ minTime: interval, maxConcurrent: concurrency, ... })
NewBottleneck(t) == [minTime |-> t[1], maxConcurrent |-> t[2]]

\* getLimiter: the registry after the call; a scheduler is constructed for a
\* tuple that has none
getLimiter(t) ==
    IF LimiterMissing(t)
    THEN /\ bottleneck' = Append(bottleneck, NewBottleneck(t))
         /\ limiters' = (t :> (Len(bottleneck) + 1)) @@ limiters
    ELSE UNCHANGED <<limiters, bottleneck>>

(***************************************************************************)
(* Proxy selection.                                                        *)
(***************************************************************************)
\* (mutant) proxy.use: false keeps a request to a listed hostname off the proxy
getAgentUseOverrides(options, hostname) ==
    /\ Has(options, "proxy")
    /\ ~(Has(options.proxy, "enable") /\ options.proxy.enable = FALSE)
    /\ ~(Has(options.proxy, "use") /\ options.proxy.use = FALSE)
    /\ \/ Has(options, "useProxy") /\ options.useProxy
       \/ Has(options.proxy, "use") /\ options.proxy.use
       \/ Has(options.proxy, "hostnames") /\ hostname \in options.proxy.hostnames

\* getAgent(options, url) instanceof undici.ProxyAgent
getAgent(options, hostname) ==
    /\ Has(options, "proxy")
    /\ ~(Has(options.proxy, "enable") /\ options.proxy.enable = FALSE)
    /\ \/ Has(options, "useProxy") /\ options.useProxy
       \/ Has(options.proxy, "use") /\ options.proxy.use
       \/ Has(options.proxy, "hostnames") /\ hostname \in options.proxy.hostnames

(***************************************************************************)
(* Request calls.                                                          *)
(*   pc: idle -> queued -> ... -> done | raised                            *)
(*   browser mode: queued -> awaitClient -> page -> done | raised          *)
(*   plain mode:   queued -> transport -> (queued | body) -> done | raised *)
(***************************************************************************)
NoResult == [type |-> "none"]
NoCall == [fn |-> "none"]

IdleReq ==
    [pc |-> "idle", mode |-> "none", options |-> <<>>, hostname |-> "",
     limiter |-> 0, interval |-> 0, concurrency |-> 0, isProxied |-> FALSE,
     client |-> 0, holds |-> FALSE, firstWave |-> FALSE, usedClosed |-> "no",
     redirects |-> 0, transports |-> 0, events |-> <<>>, nested |-> FALSE,
     res |-> NoResult, result |-> NoResult]

\* requests are issued in the order of their numbers
MayStart(r) == req[r].pc = "idle" /\ (IF r = 1 THEN TRUE ELSE req[r - 1].pc # "idle")

\* the jobs a scheduler instance is executing: the scheduled function has been
\* called and the promise it returned is not settled
\* (nested: the scheduled function itself waits for a call it has submitted)
Executing(l) ==
    {q \in Reqs : req[q].limiter = l
                     /\ (req[q].pc \in {"awaitClient", "page", "transport"} \/ req[q].nested)}

\* Bottleneck's contract: a queued job is started when fewer than maxConcurrent
\* jobs of the instance are executing (an instance without maxConcurrent does
\* not limit)
SlotFree(l) ==
    Has(bottleneck[l], "maxConcurrent") => Cardinality(Executing(l)) < bottleneck[l].maxConcurrent

(***************************************************************************)
(* configure                                                               *)
(***************************************************************************)
configure(newOptions) ==
    /\ configured = 0
    /\ \A r \in Reqs : req[r].pc = "idle"
    /\ globalOptions' = merge(globalOptions, newOptions)
    /\ configured' = configured + 1
    /\ UNCHANGED <<limiters, bottleneck, clients, handle, req, closeAll, pure>>

\* (mutant) configure merges the new options into the objects in use
configureInPlace(newOptions) ==
    /\ configured < MaxConfigure
    /\ globalOptions' = merge(globalOptions, newOptions)
    /\ configured' = configured + 1
    /\ req' = [r \in Reqs |-> IF req[r].pc = "idle" THEN req[r]
                              ELSE [req[r] EXCEPT !.options = merge(@, newOptions)]]
    /\ UNCHANGED <<limiters, bottleneck, clients, handle, closeAll, pure>>

\* configure, called at any moment, also while requests are in flight
configureInFlight(newOptions) ==
    /\ configured < MaxConfigure
    /\ globalOptions' = merge(globalOptions, newOptions)
    /\ configured' = configured + 1
    /\ UNCHANGED <<limiters, bottleneck, clients, handle, req, closeAll, pure>>

(***************************************************************************)
(* handleError(error, code): TRUE when the error is raised                 *)
(***************************************************************************)
handleError == globalOptions.throwErrors

\* (mutant) the error is raised without its code
RaisedErrorUntagged(code) == [type |-> "error", code |-> "", fields |-> {"message"}]

\* the error object handleError raises: Object.assign(error, { code })
RaisedError(code) == [type |-> "error", code |-> code, fields |-> {"message", "code"}]

\* an error raised by a collaborator that passes through the library untouched
ForeignError(name) == [type |-> "error", code |-> name, fields |-> {"message"}]

(***************************************************************************)
(* Browser instance pool.                                                  *)
(***************************************************************************)
\* `${scope}_${proxy|direct}_${hash of options.browser}_${hash of options.context}`
\* (the hash is taken to be injective)
scopeKey(scope, options, useProxy) ==
    <<scope,
      IF useProxy THEN "proxy" ELSE "direct",
      IF Has(options, "browser") THEN options.browser ELSE "default",
      IF Has(options, "context") THEN options.context ELSE "default">>

\* options.clientRetirement || 20
clientRetirement(options) ==
    IF Has(options, "clientRetirement") /\ options.clientRetirement # 0
    THEN options.clientRetirement
    ELSE DefaultRetirement

\* the handle object getBrowserInstance creates on a registry miss
NewClient(key) ==
    [key |-> key, launchers |-> "browser", browser |-> "undefined",
     active |-> 0, uses |-> 1, retired |-> FALSE, closedBy |-> "none"]

\* (mutant) the handle is not registered when its launch starts
RegisterClientNever(scope, key, h) == clients

\* if (scope) clients.set(scopeKey, client)
RegisterClient(scope, key, h) == IF scope # Null THEN (key :> h) @@ clients ELSE clients

\* the handles launched so far for a key, and whether an acquisition made now
\* is concurrent with the first launch for the key (history, for the claims)
HandlesOf(key) == {h \in DOMAIN handle : handle[h].key = key}
FirstHandle(key) == CHOOSE h \in HandlesOf(key) : \A g \in HandlesOf(key) : h <= g
InFirstWave(key) ==
    HandlesOf(key) = {} \/ handle[FirstHandle(key)].launchers \in {"browser", "context"}

\* getBrowserInstance up to its first await: the reuse of a registered handle
\* (uses += 1, retirement) or the start of a launch (registered at once)
getBrowserInstance(r, scope, options, useProxy) ==
    LET key == scopeKey(scope, options, useProxy) IN
    IF key \in DOMAIN clients
    THEN LET h == clients[key]
             uses == handle[h].uses + 1
             retire == uses >= clientRetirement(options)
         IN /\ handle' = [handle EXCEPT ![h].uses = uses,
                                        ![h].retired = IF retire THEN TRUE ELSE @]
            /\ clients' = IF retire THEN Without(clients, key) ELSE clients
            /\ req' = [req EXCEPT ![r].pc = "awaitClient", ![r].client = h,
                                  ![r].firstWave = InFirstWave(key)]
    ELSE LET h == Len(handle) + 1
         IN /\ handle' = Append(handle, NewClient(key))
            /\ clients' = RegisterClient(scope, key, h)
            /\ req' = [req EXCEPT ![r].pc = "awaitClient", ![r].client = h,
                                  ![r].firstWave = InFirstWave(key)]

\* closeBrowser(client, options), called with the handle as hs[h]: the handles after it
closeBrowser(hs, h, options) ==
    IF options.client = Null \/ (hs[h].retired /\ hs[h].active = 0)
    THEN [hs EXCEPT ![h].browser = "closed",
                    ![h].closedBy = IF hs[h].browser = "open" THEN "closeBrowser" ELSE @]
    ELSE hs

(***************************************************************************)
(* The browser automation engine: a launch resolves the browser process,   *)
(* then its browsing context; either step can fail.                        *)
(***************************************************************************)
BrowserLaunched(h) ==
    /\ handle[h].launchers = "browser"
    /\ handle' = [handle EXCEPT ![h].launchers = "context", ![h].browser = "open"]
    /\ UNCHANGED <<globalOptions, configured, limiters, bottleneck, clients, req, closeAll, pure>>

ContextLaunched(h) ==
    /\ handle[h].launchers = "context"
    /\ handle[h].browser = "open"
    /\ handle' = [handle EXCEPT ![h].launchers = "resolved"]
    /\ UNCHANGED <<globalOptions, configured, limiters, bottleneck, clients, req, closeAll, pure>>

LaunchRejected(h) ==
    /\ handle[h].launchers \in {"browser", "context"}
    /\ handle' = [handle EXCEPT ![h].launchers = "rejected"]
    /\ UNCHANGED <<globalOptions, configured, limiters, bottleneck, clients, req, closeAll, pure>>

(***************************************************************************)
(* closeAllBrowsers                                                        *)
(***************************************************************************)
\* Array.from(clients.values())
Registered == {clients[k] : k \in DOMAIN clients}

\* client.browser.close() on every registered handle; reading close of a
\* browser property that is still undefined raises a TypeError, which rejects
\* the Promise.all and so the call
closeAllBrowsers ==
    /\ closeAll.calls < MaxCloseAll
    /\ handle' = [h \in DOMAIN handle |->
                    IF h \in Registered /\ handle[h].browser # "undefined"
                    THEN [handle[h] EXCEPT !.browser = "closed",
                                           !.closedBy = IF handle[h].browser = "open"
                                                        THEN "closeAllBrowsers" ELSE @]
                    ELSE handle[h]]
    /\ closeAll' = [calls |-> closeAll.calls + 1,
                    registered |-> Registered,
                    raised |-> \E h \in Registered : handle[h].browser = "undefined"]
    /\ UNCHANGED <<globalOptions, configured, limiters, bottleneck, clients, req, pure>>

(***************************************************************************)
(* browserRequest                                                          *)
(***************************************************************************)
BrowserDefaults == [timeout |-> 10000, extract |-> TRUE, client |-> "main", limiter |-> "browser"]

\* the envelopes browserRequest returns
NavigationErrorEnvelope ==
    [type |-> "envelope", ok |-> FALSE, nulls |-> {"status"},
     fields |-> {"ok", "status", "statusText"}]
\* (mutant) the envelope of a status that is not 2xx says ok: true
NotOkEnvelopeOk(status) ==
    [type |-> "envelope", ok |-> TRUE, status |-> status, nulls |-> {},
     fields |-> {"ok", "status", "statusText", "headers", "response", "res"}]
NotOkEnvelope(status) ==
    [type |-> "envelope", ok |-> FALSE, status |-> status, nulls |-> {},
     fields |-> {"ok", "status", "statusText", "headers", "response", "res"}]
ControlErrorEnvelope(status) ==
    [type |-> "envelope", ok |-> FALSE, status |-> status, nulls |-> {},
     fields |-> {"ok", "controlError", "status", "statusText", "headers", "response", "res"}]
\* curateResponse: the base envelope
curateResponse(status) ==
    [type |-> "envelope", ok |-> TRUE, status |-> status, nulls |-> {},
     fields |-> {"ok", "data", "status", "statusText", "headers", "response", "res", "control"}]

\* what the transport call settles with: a response, or a rejection, which the
\* catch handler turns into { status: 500, statusText: 'Request aborted', text }
Response(status, location) == [type |-> "response", status |-> status, location |-> location]
Rejection == [type |-> "rejection", status |-> 500, location |-> FALSE]

\* the call up to limiter.schedule: options, limiter, agent, requestInit
browserRequest(r, url, customOptions) ==
    LET options == merge(merge(BrowserDefaults, globalOptions), customOptions)
        t == LimiterTuple(options, url)
    IN /\ MayStart(r)
       /\ getLimiter(t)
       /\ req' = [req EXCEPT ![r] = [IdleReq EXCEPT !.pc = "queued", !.mode = "browser",
                                        !.options = options, !.hostname = url,
                                        !.limiter = limiters'[t],
                                        !.interval = t[1], !.concurrency = t[2],
                                        !.isProxied = getAgent(options, url),
                                        !.events = <<"requestInit">>]]
       /\ UNCHANGED <<globalOptions, configured, clients, handle, closeAll, pure>>

\* the limiter starts the scheduled function, which runs into getBrowserInstance
BrowserJobStart(r) ==
    /\ req[r].pc = "queued"
    /\ req[r].mode = "browser"
    /\ SlotFree(req[r].limiter)
    /\ getBrowserInstance(r, req[r].options.client, req[r].options, req[r].isProxied)
    /\ UNCHANGED <<globalOptions, configured, limiters, bottleneck, closeAll, pure>>

\* getBrowserInstance returns the handle: client.active += 1, then
\* client.context.newPage(), which is rejected when the process is closed
ClientResolved(r) ==
    LET h == req[r].client IN
    /\ req[r].pc = "awaitClient"
    /\ handle[h].launchers = "resolved"
    /\ handle' = [handle EXCEPT ![h].active = @ + 1]
    /\ req' = IF handle[h].browser = "closed"
              THEN [req EXCEPT ![r].pc = "raised", ![r].holds = TRUE,
                               ![r].usedClosed = handle[h].closedBy,
                               ![r].result = ForeignError("TargetClosedError")]
              ELSE [req EXCEPT ![r].pc = "page", ![r].holds = TRUE]
    /\ UNCHANGED <<globalOptions, configured, limiters, bottleneck, clients, closeAll, pure>>

\* the launch promise awaited in getBrowserInstance is rejected
ClientRejected(r) ==
    /\ req[r].pc = "awaitClient"
    /\ handle[req[r].client].launchers = "rejected"
    /\ req' = [req EXCEPT ![r].pc = "raised", ![r].result = ForeignError("LaunchError")]
    /\ UNCHANGED <<globalOptions, configured, limiters, bottleneck, clients, handle, closeAll, pure>>

\* client.active -= 1; await closeBrowser(client, options)
Release(h, options) == closeBrowser([handle EXCEPT ![h].active = @ - 1], h, options)

\* what page.goto settles with: an Error (navigation error) or a response
NavigationError == [type |-> "navigationError", status |-> Null, location |-> FALSE]

\* page.goto settles and the rest of the scheduled function runs
PageSettled(r, outcome) ==
    LET h == req[r].client
        options == req[r].options
    IN /\ req[r].pc = "page"
       /\ handle[h].browser = "closed" => outcome = "navigationError"
       /\ outcome = "controlError" => Has(options, "control")
       /\ CASE outcome = "navigationError" ->
                 /\ req' = [req EXCEPT ![r].pc = "done", ![r].res = NavigationError,
                                       ![r].result = NavigationErrorEnvelope]
                 /\ UNCHANGED handle
            [] outcome = "notOk" ->
                 IF handleError
                 THEN /\ req' = [req EXCEPT ![r].pc = "raised", ![r].res = Response(404, FALSE),
                                            ![r].result = RaisedError("HTTP_NOT_OK")]
                      /\ UNCHANGED handle
                 ELSE /\ handle' = Release(h, options)
                      /\ req' = [req EXCEPT ![r].pc = "done", ![r].holds = FALSE,
                                            ![r].res = Response(404, FALSE),
                                            ![r].events = Append(@, "requestError"),
                                            ![r].result = NotOkEnvelope(404)]
            [] outcome = "controlError" ->
                 /\ handle' = Release(h, options)
                 /\ req' = [req EXCEPT ![r].pc = "done", ![r].holds = FALSE,
                                       ![r].res = Response(200, FALSE),
                                       ![r].events = Append(@, "requestSuccess"),
                                       ![r].result = ControlErrorEnvelope(200)]
            [] outcome = "ok" ->
                 /\ handle' = Release(h, options)
                 /\ req' = [req EXCEPT ![r].pc = "done", ![r].holds = FALSE,
                                       ![r].res = Response(200, FALSE),
                                       ![r].events = @ \o <<"requestSuccess", "controlSuccess",
                                                            "requestSuccess">>,
                                       ![r].result = curateResponse(200)]
       /\ UNCHANGED <<globalOptions, configured, limiters, bottleneck, clients, closeAll, pure>>

PageOutcomes == {"navigationError", "notOk", "controlError", "ok"}

(***************************************************************************)
(* request (plain HTTP)                                                    *)
(***************************************************************************)
RequestDefaults ==
    [interface |-> "fetch", timeout |-> 10000, extract |-> TRUE,
     followRedirects |-> TRUE, maxRedirects |-> 3]

RedirectStatuses == {301, 302, 303, 307, 308}

\* the call up to limiter.schedule: options, limiter, agent, requestInit, headers
request(r, url, customOptions, redirects) ==
    LET options == merge(merge(RequestDefaults, globalOptions), customOptions)
        t == LimiterTuple(options, url)
    IN /\ getLimiter(t)
       /\ req' = [req EXCEPT ![r] = [IdleReq EXCEPT !.pc = "queued", !.mode = "plain",
                                        !.options = options, !.hostname = url,
                                        !.limiter = limiters'[t],
                                        !.interval = t[1], !.concurrency = t[2],
                                        !.isProxied = getAgent(options, url),
                                        !.redirects = redirects,
                                        !.transports = req[r].transports,
                                        !.events = Append(req[r].events, "requestInit")]]
       /\ UNCHANGED <<globalOptions, configured, clients, handle, closeAll, pure>>

\* get / post / request as called by the user
RequestCall(r, url, customOptions) ==
    /\ MayStart(r)
    /\ request(r, url, customOptions, 0)

\* the limiter starts the scheduled function: undici[options.interface](url, ...)
TransportStart(r) ==
    /\ req[r].pc = "queued"
    /\ req[r].mode = "plain"
    /\ SlotFree(req[r].limiter)
    /\ req' = [req EXCEPT ![r].pc = "transport", ![r].transports = @ + 1]
    /\ UNCHANGED <<globalOptions, configured, limiters, bottleneck, clients, handle, closeAll, pure>>

\* (mutant) redirects are followed without counting them
FollowsRedirectUnbounded(options, res, redirects) ==
    /\ options.interface = "request"
    /\ res.status \in RedirectStatuses
    /\ res.location
    /\ options.followRedirects

\* the condition under which request follows a redirect by hand
FollowsRedirect(options, res, redirects) ==
    /\ options.interface = "request"
    /\ res.status \in RedirectStatuses
    /\ res.location
    /\ options.followRedirects
    /\ redirects < options.maxRedirects

\* (mutant) the next hop is submitted from inside the scheduled function,
\* which then waits for it with its slot
ReissueInside(r, newUrl, options, redirects) ==
    LET t == LimiterTuple(options, newUrl)
    IN /\ getLimiter(t)
       /\ req' = [req EXCEPT ![r].pc = "queued", ![r].nested = TRUE, ![r].hostname = newUrl,
                             ![r].redirects = redirects]
       /\ UNCHANGED <<globalOptions, configured, clients, handle, closeAll, pure>>

\* return request(newUrl, body, options, method, redirects + 1), after the
\* await of limiter.schedule: the scheduled function has returned
Reissue(r, newUrl, options, redirects) == request(r, newUrl, options, redirects)

\* the transport call settles: the request is issued again for a redirect that
\* is to be followed by hand; otherwise the body is read
TransportSettled(r, res, newUrl) ==
    LET options == req[r].options IN
    /\ req[r].pc = "transport"
    /\ IF FollowsRedirect(options, res, req[r].redirects)
       THEN Reissue(r, newUrl, options, req[r].redirects + 1)
       ELSE /\ req' = IF res.type = "rejection" /\ options.interface = "request"
                      THEN \* res.body is undefined: res.body.text() raises a TypeError
                           [req EXCEPT ![r].pc = "raised", ![r].res = res,
                                       ![r].result = ForeignError("TypeError")]
                      ELSE [req EXCEPT ![r].pc = "body", ![r].res = res]
            /\ UNCHANGED <<globalOptions, configured, limiters, bottleneck, clients, handle,
                           closeAll, pure>>

\* the body text is there: handleError and requestError for a status that is
\* not 2xx, requestSuccess and curateResponse otherwise
BodyRead(r) ==
    LET status == req[r].res.status IN
    /\ req[r].pc = "body"
    /\ req' = IF ~(status >= 200 /\ status < 300)
              THEN IF handleError
                   THEN [req EXCEPT ![r].pc = "raised", ![r].result = RaisedError("HTTP_NOT_OK")]
                   ELSE [req EXCEPT ![r].pc = "done", ![r].events = Append(@, "requestError"),
                                    ![r].result = NotOkEnvelope(status)]
              ELSE [req EXCEPT ![r].pc = "done", ![r].events = Append(@, "requestSuccess"),
                               ![r].result = curateResponse(status)]
    /\ UNCHANGED <<globalOptions, configured, limiters, bottleneck, clients, handle, closeAll, pure>>

(***************************************************************************)
(* The browser pool under concurrent browser requests.                     *)
(***************************************************************************)
Init ==
    /\ globalOptions = settings
    /\ configured = 0
    /\ limiters = <<>>
    /\ bottleneck = <<[minTime |-> 0]>>
    /\ clients = <<>>
    /\ handle = <<>>
    /\ req = [r \in Reqs |-> IdleReq]
    /\ closeAll = [calls |-> 0, registered |-> {}, raised |-> FALSE]
    /\ call = NoCall
    /\ returned = NoCall

PoolConfigs == {[throwErrors |-> b, clientRetirement |-> n] : b \in BOOLEAN, n \in 1..MaxRetirement}
PoolUrls == {"a.test"}
PoolOptions == {[control |-> "fn"], [client |-> Null, control |-> "fn"]}

Next ==
    \/ \E o \in PoolConfigs : configure(o)
    \/ \E r \in Reqs, u \in PoolUrls, o \in PoolOptions : browserRequest(r, u, o)
    \/ \E r \in Reqs : BrowserJobStart(r)
    \/ \E h \in DOMAIN handle : BrowserLaunched(h)
    \/ \E h \in DOMAIN handle : ContextLaunched(h)
    \/ \E h \in DOMAIN handle : LaunchRejected(h)
    \/ \E r \in Reqs : ClientResolved(r)
    \/ \E r \in Reqs : ClientRejected(r)
    \/ \E r \in Reqs, o \in PageOutcomes : PageSettled(r, o)
    \/ closeAllBrowsers

Spec == Init /\ [][Next]_vars

(***************************************************************************)
(* The limiter under concurrent plain and browser requests.                *)
(***************************************************************************)
LimiterConfigs == {[limits |-> [a |-> [concurrency |-> 2]]]}
LimiterUrls == {"a", "b"}
LimiterOptions == {<<>>, [interval |-> 10, concurrency |-> 1], [limiter |-> "default"]}
LimitedReqs == 1..NumLimited

NextLimiter ==
    \/ \E o \in LimiterConfigs : configure(o)
    \/ \E r \in LimitedReqs, u \in LimiterUrls, o \in LimiterOptions : RequestCall(r, u, o)
    \/ \E r \in LimitedReqs, u \in LimiterUrls, o \in LimiterOptions : browserRequest(r, u, o)
    \/ \E r \in Reqs : TransportStart(r)
    \/ \E r \in Reqs : TransportSettled(r, Response(200, FALSE), "a")
    \/ \E r \in Reqs : BodyRead(r)
    \/ \E r \in Reqs : BrowserJobStart(r)
    \/ \E h \in DOMAIN handle : BrowserLaunched(h)
    \/ \E h \in DOMAIN handle : ContextLaunched(h)
    \/ \E r \in Reqs : ClientResolved(r)
    \/ \E r \in Reqs : PageSettled(r, "ok")

SpecLimiter == Init /\ [][NextLimiter]_vars

(***************************************************************************)
(* Plain requests and their responses.                                     *)
(***************************************************************************)
RequestConfigs == {[throwErrors |-> b] : b \in BOOLEAN}
RequestUrls == {"a"}
RequestOptions ==
    {<<>>, [interface |-> "request", maxRedirects |-> 1],
     [interface |-> "request", followRedirects |-> FALSE]}
Responses ==
    {Response(200, FALSE), Response(404, FALSE), Response(302, TRUE), Response(302, FALSE),
     Rejection}
PlainReqs == 1..NumPlain

NextRequest ==
    \/ \E o \in RequestConfigs : configure(o)
    \/ \E r \in PlainReqs, u \in RequestUrls, o \in RequestOptions : RequestCall(r, u, o)
    \/ \E r \in Reqs : TransportStart(r)
    \/ \E r \in Reqs, res \in Responses, u \in RequestUrls : TransportSettled(r, res, u)
    \/ \E r \in Reqs : BodyRead(r)

SpecRequest == Init /\ [][NextRequest]_vars

\* the limiter starts every queued job, the transport settles every call and
\* the event loop runs every continuation
SpecRequestFair == SpecRequest /\ WF_vars(NextRequest)

(***************************************************************************)
(* Redirecting and concurrent requests on one scheduler of concurrency 1.  *)
(***************************************************************************)
RedirectOptions ==
    {[concurrency |-> 1], [interface |-> "request", concurrency |-> 1, maxRedirects |-> 2]}
RedirectResponses == {Response(200, FALSE), Response(302, TRUE)}

NextRedirect ==
    \/ \E r \in PlainReqs, u \in RequestUrls, o \in RedirectOptions : RequestCall(r, u, o)
    \/ \E r \in Reqs : TransportStart(r)
    \/ \E r \in Reqs, res \in RedirectResponses, u \in RequestUrls : TransportSettled(r, res, u)
    \/ \E r \in Reqs : BodyRead(r)

\* the limiter starts a queued job when a slot is free, the transport settles
\* every call and the event loop runs every continuation
SpecRedirect == Init /\ [][NextRedirect]_vars /\ WF_vars(NextRedirect)

(***************************************************************************)
(* configure while plain requests are in flight.                           *)
(***************************************************************************)
ConfigureConfigs ==
    {[throwErrors |-> TRUE], [throwErrors |-> FALSE],
     [proxy |-> [host |-> "127.0.0.1", port |-> 8888, use |-> TRUE]]}

NextConfigure ==
    \/ \E o \in ConfigureConfigs : configureInFlight(o)
    \/ \E r \in PlainReqs, u \in RequestUrls, o \in RequestOptions : RequestCall(r, u, o)
    \/ \E r \in Reqs : TransportStart(r)
    \/ \E r \in Reqs, res \in Responses, u \in RequestUrls : TransportSettled(r, res, u)
    \/ \E r \in Reqs : BodyRead(r)

SpecConfigure == Init /\ [][NextConfigure]_vars

(***************************************************************************)
(* The outcomes of plain and browser requests.                             *)
(***************************************************************************)
OutcomeOptions == {<<>>, [interface |-> "request"], [control |-> "fn"]}

NextOutcomes ==
    \/ \E o \in RequestConfigs : configure(o)
    \/ \E r \in PlainReqs, u \in RequestUrls, o \in OutcomeOptions : RequestCall(r, u, o)
    \/ \E r \in PlainReqs, u \in RequestUrls, o \in OutcomeOptions : browserRequest(r, u, o)
    \/ \E r \in Reqs : TransportStart(r)
    \/ \E r \in Reqs, res \in Responses, u \in RequestUrls : TransportSettled(r, res, u)
    \/ \E r \in Reqs : BodyRead(r)
    \/ \E r \in Reqs : BrowserJobStart(r)
    \/ \E h \in DOMAIN handle : BrowserLaunched(h)
    \/ \E h \in DOMAIN handle : ContextLaunched(h)
    \/ \E r \in Reqs : ClientResolved(r)
    \/ \E r \in Reqs, o \in PageOutcomes : PageSettled(r, o)

SpecOutcomes == Init /\ [][NextOutcomes]_vars

(***************************************************************************)
(* getLimiterValue as a function of the call site: the inputs are the mode *)
(* of the request, the limits configured for a hostname and the options    *)
(* given with the call.                                                    *)
(***************************************************************************)
\* the objects that define a property or leave it undefined
Optional(name, values) == {<<>>} \cup {name :> v : v \in values}

HostLimits ==
    {e @@ i @@ c : e \in Optional("enable", BOOLEAN), i \in Optional("interval", {3}),
                   c \in Optional("concurrency", {4})}
LimitsConfigs == {<<>>} \cup {[limits |-> [a |-> h]] : h \in HostLimits}
CallLimits ==
    {i @@ c @@ l : i \in Optional("interval", {1}), c \in Optional("concurrency", {2}),
                   l \in Optional("limiter", {"default", "browser"})}

LimiterValueCalls ==
    {[fn |-> "getLimiterValue", prop |-> p, mode |-> m, hostname |-> u,
      config |-> g, custom |-> o,
      options |-> merge(merge(IF m = "browser" THEN BrowserDefaults ELSE RequestDefaults,
                              merge(settings, g)), o)] :
        p \in {"interval", "concurrency"}, m \in {"plain", "browser"}, u \in LimiterUrls,
        g \in LimitsConfigs, o \in CallLimits}

InitLimiterValue ==
    /\ globalOptions = settings
    /\ configured = 0
    /\ limiters = <<>>
    /\ bottleneck = <<[minTime |-> 0]>>
    /\ clients = <<>>
    /\ handle = <<>>
    /\ req = [r \in Reqs |-> IdleReq]
    /\ closeAll = [calls |-> 0, registered |-> {}, raised |-> FALSE]
    /\ call \in LimiterValueCalls
    /\ returned = NoCall

GetLimiterValueCall ==
    /\ call.fn = "getLimiterValue"
    /\ returned = NoCall
    /\ returned' = [fn |-> call.fn,
                    value |-> getLimiterValue(call.prop, call.options, call.hostname)]
    /\ UNCHANGED <<globalOptions, configured, limiters, bottleneck, clients, handle, req,
                   closeAll, call>>

NextLimiterValue == GetLimiterValueCall

SpecLimiterValue == InitLimiterValue /\ [][NextLimiterValue]_vars

(***************************************************************************)
(* Calls of the pure functions of the library: the state before a call     *)
(* drawn from a set of calls.                                              *)
(***************************************************************************)
InitCall(calls) ==
    /\ globalOptions = settings
    /\ configured = 0
    /\ limiters = <<>>
    /\ bottleneck = <<[minTime |-> 0]>>
    /\ clients = <<>>
    /\ handle = <<>>
    /\ req = [r \in Reqs |-> IdleReq]
    /\ closeAll = [calls |-> 0, registered |-> {}, raised |-> FALSE]
    /\ call \in calls
    /\ returned = NoCall

\* the call returns value
Return(value) ==
    /\ returned = NoCall
    /\ returned' = [fn |-> call.fn, value |-> value]
    /\ UNCHANGED <<globalOptions, configured, limiters, bottleneck, clients, handle, req,
                   closeAll, call>>

(***************************************************************************)
(* The query engine.  A document is the sequence of its elements in        *)
(* document order; an element is known by its position (its identity) and  *)
(* has a text content and a data attribute.  A selector string is known by *)
(* its syntax (CSS or XPath) and by the set of elements the DOM engine      *)
(* matches it to.  Values are tagged with their JavaScript type.           *)
(***************************************************************************)
Str(x) == [t |-> "string", v |-> x]
Num(n) == [t |-> "number", v |-> n]
NullValue == [t |-> "null"]
Undefined == [t |-> "undefined"]
\* Boolean(value)
Truthy(x) ==
    CASE x.t = "string" -> x.v # ""
      [] x.t = "chars" -> x.v # <<>>
      [] x.t = "number" -> x.v # 0
      [] x.t \in {"date", "object"} -> TRUE
      [] OTHER -> FALSE

\* the element no element: null
NullElement == 0

\* string.trim().replace(/\s+/g, ' ') on the text contents of the documents
trim(string) ==
    CASE string = " x " -> "x"
      [] OTHER -> string

RawTexts == {"", " x ", "7"}
Elements == [text : RawTexts, data : {Undefined, Str("v")}]
Documents == [1..NumElems -> Elements]
ElementSets == SUBSET (1..NumElems)
Selectors == [kind : {"css", "xpath"}, matches : ElementSets]

RECURSIVE Ordered(_)
\* the elements of a set in document order
Ordered(S) ==
    IF S = {} THEN <<>>
    ELSE LET m == CHOOSE x \in S : \A y \in S : x <= y IN <<m>> \o Ordered(S \ {m})

\* getElements: querySelector / iterateNext (firstOnly), querySelectorAll /
\* iterateXpathResult otherwise, both in document order
getElements(context, selector, firstOnly) ==
    IF selector.kind = "xpath"
    THEN IF firstOnly
         THEN (IF selector.matches = {} THEN NullElement ELSE Head(Ordered(selector.matches)))
         ELSE Ordered(selector.matches)
    ELSE IF firstOnly
         THEN (IF selector.matches = {} THEN NullElement ELSE Head(Ordered(selector.matches)))
         ELSE Ordered(selector.matches)

RECURSIVE ReduceFirst(_, _, _)
\* [].concat(selectors).reduce((acc, selector) => acc || getElements(context, selector, true), acc)
ReduceFirst(context, selectors, acc) ==
    IF selectors = <<>> THEN acc
    ELSE ReduceFirst(context, Tail(selectors),
                     IF acc # NullElement THEN acc ELSE getElements(context, Head(selectors), TRUE))

RECURSIVE ReduceFirstOfLast(_, _, _)
\* (mutant) a later selector that matches replaces the match of an earlier one
ReduceFirstOfLast(context, selectors, acc) ==
    IF selectors = <<>> THEN acc
    ELSE ReduceFirstOfLast(context, Tail(selectors),
                           LET e == getElements(context, Head(selectors), TRUE)
                           IN IF e # NullElement THEN e ELSE acc)

\* (mutant) see ReduceFirstOfLast
queryElementLast(context, selectors) == ReduceFirstOfLast(context, selectors, NullElement)

queryElement(context, selectors) == ReduceFirst(context, selectors, NullElement)

RECURSIVE ReduceConcat(_, _, _)
\* [].concat(selectors).reduce((acc, selector) => acc.concat(getElements(context, selector, false)), acc)
ReduceConcat(context, selectors, acc) ==
    IF selectors = <<>> THEN acc
    ELSE ReduceConcat(context, Tail(selectors), acc \o getElements(context, Head(selectors), FALSE))

\* targets.filter((target, index, array) => index === array.findIndex((dupe) => target === dupe))
FilterDuplicates(targets) ==
    LET keep == {i \in DOMAIN targets : \A j \in 1..(i - 1) : targets[j] # targets[i]}
    IN [k \in 1..Cardinality(keep) |-> targets[Ordered(keep)[k]]]

\* (mutant) duplicates are kept whatever the options
queryElementsUnfiltered(context, selectors, options) == ReduceConcat(context, selectors, <<>>)

queryElements(context, selectors, options) ==
    LET targets == SelectSeq(ReduceConcat(context, selectors, <<>>), LAMBDA e : e # NullElement)
    IN IF Has(options, "filterDuplicates") /\ options.filterDuplicates = FALSE
       THEN targets
       ELSE FilterDuplicates(targets)

SelectorLists == UNION {[1..n -> Selectors] : n \in 1..MaxSelectors}

TheContext == [element |-> [i \in 1..NumElems |-> [text |-> "", data |-> Undefined]], options |-> <<>>]

ElementCalls ==
    {[fn |-> "queryElement", context |-> TheContext, selectors |-> l] : l \in SelectorLists}
ElementsCalls ==
    {[fn |-> "queryElements", context |-> TheContext, selectors |-> l, options |-> o] :
        l \in SelectorLists, o \in Optional("filterDuplicates", BOOLEAN)}

QueryElementCall ==
    /\ call.fn = "queryElement"
    /\ Return(queryElement(call.context, call.selectors))

QueryElementsCall ==
    /\ call.fn = "queryElements"
    /\ Return(queryElements(call.context, call.selectors, call.options))

InitResolve == InitCall(ElementCalls \cup ElementsCalls)

NextResolve == QueryElementCall \/ QueryElementsCall

SpecResolve == InitResolve /\ [][NextResolve]_vars

\* the selectors of the call that match an element, by position in the list
Matching == {i \in DOMAIN call.selectors : call.selectors[i].matches # {}}
FirstOf(S) == CHOOSE x \in S : \A y \in S : x <= y

\* C17: queryElement returns the first match, in document order, of the first
\* selector of the list that matches an element, and null when no selector
\* matches.
C17_FirstMatchOfFirstSelector ==
    returned # NoCall /\ call.fn = "queryElement" =>
        IF Matching = {}
        THEN returned.value = NullElement
        ELSE returned.value = FirstOf(call.selectors[FirstOf(Matching)].matches)

\* C17 (witness): the first selector matches nothing and the result is the
\* first match of the second, an XPath selector, which is not the first
\* element of the document
C17_Witness ==
    /\ returned # NoCall /\ call.fn = "queryElement"
    /\ Len(call.selectors) = 2
    /\ call.selectors[1].matches = {}
    /\ call.selectors[1].kind = "css" /\ call.selectors[2].kind = "xpath"
    /\ returned.value = 2

\* the occurrences of element e in a sequence of elements
Occurrences(seq, e) == Cardinality({i \in DOMAIN seq : seq[i] = e})
RECURSIVE Concat(_)
\* the matches of the selectors of a list, one after the other
Concat(selectors) ==
    IF selectors = <<>> THEN <<>>
    ELSE Ordered(Head(selectors).matches) \o Concat(Tail(selectors))
\* seq without the elements of a set
Minus(seq, S) == SelectSeq(seq, LAMBDA e : e \notin S)
RECURSIVE FirstOccurrences(_)
FirstOccurrences(seq) ==
    IF seq = <<>> THEN <<>>
    ELSE <<Head(seq)>> \o FirstOccurrences(Minus(Tail(seq), {Head(seq)}))

\* C18: queryElements returns the concatenation of the matches of the
\* selectors in the order of the list, every element kept at its first
\* occurrence only unless filterDuplicates is false; the result is a sequence,
\* empty when nothing matches.
C18_ConcatenationWithoutDuplicates ==
    returned # NoCall /\ call.fn = "queryElements" =>
        /\ returned.value \in Seq(1..NumElems)
        /\ IF Has(call.options, "filterDuplicates") /\ call.options.filterDuplicates = FALSE
           THEN returned.value = Concat(call.selectors)
           ELSE returned.value = FirstOccurrences(Concat(call.selectors))
        /\ Matching = {} => returned.value = <<>>

\* C18 (witness): an element matched by both selectors of the list is
\* returned once by default
C18_Witness ==
    /\ returned # NoCall /\ call.fn = "queryElements"
    /\ Len(call.selectors) = 2
    /\ call.selectors[1].matches = {2}
    /\ call.selectors[2].matches = {1, 2}
    /\ call.options = <<>>
    /\ returned.value = <<2, 1>>

(***************************************************************************)
(* The query operations: their options and the values they extract.       *)
(***************************************************************************)
\* Object.hasOwn(options, 'attr') / Object.hasOwn(options, 'attribute')
getAttributeKey(options) ==
    IF Has(options, "attr") THEN options.attr
    ELSE IF Has(options, "attribute") THEN options.attribute
    ELSE Null

\* element.getAttribute(key): the data attribute is the one attribute an
\* element of the documents can have
getAttribute(element, key) ==
    IF key = "data-v"
    THEN (IF Has(element, "data") /\ element.data # Undefined THEN element.data ELSE NullValue)
    ELSE IF Has(element, key) /\ element[key] # Undefined THEN element[key]
    ELSE NullValue

\* element[key]: the DOM property of that name; childElementCount is the one
\* property the elements of the documents have that is not a string
property(element, key) ==
    IF key = "childElementCount" /\ Has(element, "count") THEN Num(element.count) ELSE Undefined

\* extractContent of an element (not null)
extractContent(element, options) ==
    LET attributeKey == getAttributeKey(options)
        attribute == IF Has(options, "forceGetAttribute") /\ options.forceGetAttribute
                     THEN getAttribute(element, attributeKey)
                     ELSE IF Truthy(property(element, attributeKey))
                     THEN property(element, attributeKey)
                     ELSE getAttribute(element, attributeKey)
        trimmed == Has(options, "trim") /\ options.trim
    IN IF attributeKey # Null
       THEN (IF Truthy(attribute) /\ trimmed /\ attribute.t = "string"
             THEN Str(trim(attribute.v)) ELSE attribute)
       ELSE (IF trimmed THEN Str(trim(element.text)) ELSE Str(element.text))

\* the options object the operations compute
queryContentOptions(context, customOptions) ==
    Merge(Merge(context.options, [trim |-> TRUE]), customOptions)
queryContentsOptions(context, customOptions) ==
    Merge(Merge(context.options, [trim |-> TRUE, filter |-> TRUE]), customOptions)
queryUrlOptions(context, customOptions) ==
    queryContentOptions(context,
        Merge(Merge(context.options, [attribute |-> "href", forceGetAttribute |-> TRUE]),
              customOptions))
queryImageOptions(context, customOptions) ==
    Merge(Merge(context.options, customOptions), [forceGetAttribute |-> TRUE])

queryContent(context, selector, customOptions) ==
    LET options == queryContentOptions(context, customOptions)
        target == queryElement(context, <<selector>>)
    IN IF target = NullElement THEN NullValue
       ELSE extractContent(context.element[target], options)

\* array.map over a sequence of elements / of values
Map(seq, Op(_)) == [i \in DOMAIN seq |-> Op(seq[i])]
\* array.filter(Boolean)
FilterBoolean(seq) == SelectSeq(seq, Truthy)

queryContents(context, selector, customOptions) ==
    LET options == queryContentsOptions(context, customOptions)
        targets == queryElements(context, <<selector>>, options)
        extractedContents == Map(targets, LAMBDA e : extractContent(context.element[e], options))
    IN IF options.filter THEN FilterBoolean(extractedContents) ELSE extractedContents

\* the TypeError the engine raises for a call of a method the value has not
TypeError == [t |-> "raised", error |-> "TypeError"]

\* extractNumber with the default options: the first run of digits
extractNumber(rawNumberString) ==
    IF ~Truthy(rawNumberString) THEN NullValue
    ELSE IF rawNumberString.t # "string" THEN TypeError
    ELSE IF trim(rawNumberString.v) = "7" THEN Num(7) ELSE NullValue

queryNumbers(context, selector, customOptions) ==
    LET options == Merge([filter |-> TRUE], customOptions)
        numberStrings == queryContents(context, selector, customOptions)
        extractedNumbers == Map(numberStrings, extractNumber)
    IN IF options.filter THEN FilterBoolean(extractedNumbers) ELSE extractedNumbers

\* trim(target.innerHTML) of every target
queryHtmls(context, selector, customOptions) ==
    Map(queryElements(context, <<selector>>, customOptions),
        LAMBDA e : Str(trim(context.element[e].text)))

\* extractText of an element with at most one text node: the node trimmed,
\* the empty one left out or not (options.filter), joined
extractText(target) == Str(trim(target.text))

queryTexts(context, selector, customOptions) ==
    Map(queryElements(context, <<selector>>, customOptions),
        LAMBDA e : extractText(context.element[e]))

\* JSON.parse, null when it raises
extractJson(dataString) ==
    IF ~Truthy(dataString) THEN NullValue
    ELSE IF dataString.t # "string" THEN dataString
    ELSE IF trim(dataString.v) = "7" THEN Num(7) ELSE NullValue

queryJsons(context, selector, customOptions) ==
    FilterBoolean(Map(queryContents(context, selector, customOptions), extractJson))

\* target.dataset[dataAttribute] of every target
queryDatasets(context, selector, customOptions) ==
    Map(queryElements(context, <<selector>>, customOptions), LAMBDA e : context.element[e].data)

QueryOptions ==
    {t @@ f @@ a : t \in Optional("trim", BOOLEAN), f \in Optional("forceGetAttribute", BOOLEAN),
                   a \in Optional("attribute", {"data-v"})}
OptionsCalls ==
    {[fn |-> "options", op |-> op, custom |-> o, selector |-> [kind |-> "css", matches |-> {1}],
      context |-> [element |-> <<[text |-> x, data |-> Str(" x ")]>>, options |-> c]] :
        op \in {"content", "url", "image"}, o \in QueryOptions, c \in QueryOptions, x \in RawTexts}

PluralOps == {"contents", "numbers", "htmls", "texts", "jsons", "datasets"}
PluralCalls ==
    {[fn |-> "plural", op |-> op, custom |-> o, selector |-> [kind |-> "css", matches |-> m],
      context |-> [element |-> d, options |-> <<>>]] :
        op \in PluralOps, o \in Optional("filter", BOOLEAN), m \in ElementSets, d \in Documents}

\* a query operation computes its options (and queryContent its value)
OptionsCall ==
    /\ call.fn = "options"
    /\ Return(CASE call.op = "content" ->
                     [options |-> queryContentOptions(call.context, call.custom),
                      content |-> queryContent(call.context, call.selector, call.custom)]
                 [] call.op = "url" ->
                     [options |-> queryUrlOptions(call.context, call.custom)]
                 [] call.op = "image" ->
                     [options |-> queryImageOptions(call.context, call.custom)])

PluralCall ==
    /\ call.fn = "plural"
    /\ Return(CASE call.op = "contents" -> queryContents(call.context, call.selector, call.custom)
                 [] call.op = "numbers" -> queryNumbers(call.context, call.selector, call.custom)
                 [] call.op = "htmls" -> queryHtmls(call.context, call.selector, call.custom)
                 [] call.op = "texts" -> queryTexts(call.context, call.selector, call.custom)
                 [] call.op = "jsons" -> queryJsons(call.context, call.selector, call.custom)
                 [] call.op = "datasets" -> queryDatasets(call.context, call.selector, call.custom))

InitQuery == InitCall(OptionsCalls \cup PluralCalls)

NextQuery == OptionsCall \/ PluralCall

SpecQuery == InitQuery /\ [][NextQuery]_vars

\* the built-in defaults of the operations
BuiltIn(op) ==
    CASE op = "content" -> [trim |-> TRUE]
      [] op = "url" -> [trim |-> TRUE, attribute |-> "href", forceGetAttribute |-> TRUE]
      [] op = "image" -> [forceGetAttribute |-> TRUE]

\* C19: the options of a query operation are the built-in defaults of the
\* operation, overridden by the options of the Context, overridden by the
\* options of the call; so the content of an element is not trimmed when the
\* Context has trim: false and the call has no trim option.
C19_DefaultsContextCallSite ==
    returned # NoCall /\ call.fn = "options" =>
        /\ returned.value.options = Merge(Merge(BuiltIn(call.op), call.context.options), call.custom)
        /\ /\ call.op = "content"
           /\ ~Has(call.custom, "trim") /\ ~Has(call.custom, "attribute")
           /\ ~Has(call.context.options, "attribute")
           /\ Has(call.context.options, "trim") /\ ~call.context.options.trim
           => returned.value.content = Str(call.context.element[1].text)

\* a value that is neither null (or undefined) nor empty
NonEmpty(x) == x.t \notin {"null", "undefined"} /\ x # Str("")

\* C20: a plural operation returns, by default and with filter: true, a
\* sequence without null or empty entries and, with filter: false, a
\* sequence with one entry for each matched element.
C20_PluralFilter ==
    returned # NoCall /\ call.fn = "plural" =>
        IF Has(call.custom, "filter") /\ ~call.custom.filter
        THEN Len(returned.value) = Cardinality(call.selector.matches)
        ELSE \A i \in DOMAIN returned.value : NonEmpty(returned.value[i])

(***************************************************************************)
(* URL normalization.  prefixUrl tests and cuts the characters of its      *)
(* arguments, so here a string is the sequence of its characters.          *)
(***************************************************************************)
Chs(s) == [t |-> "chars", v |-> s]

\* /^prefix/.test(string)
StartsWith(string, prefix) ==
    Len(string) >= Len(prefix) /\ SubSeq(string, 1, Len(prefix)) = prefix

\* string.replace(/:$/, '')
WithoutColon(string) ==
    IF Len(string) > 0 /\ string[Len(string)] = ":" THEN SubSeq(string, 1, Len(string) - 1)
    ELSE string

\* string.replace(/\/+$/, '')
RECURSIVE WithoutSlashes(_)
WithoutSlashes(string) ==
    IF Len(string) > 0 /\ string[Len(string)] = "/"
    THEN WithoutSlashes(SubSeq(string, 1, Len(string) - 1))
    ELSE string

\* new URL(originUrl) of an absolute URL scheme://host/path: its protocol
\* (the scheme with the colon) and its origin (scheme://host)
URL(originUrl) ==
    LET colon == CHOOSE i \in 1..Len(originUrl) :
                     originUrl[i] = ":" /\ \A j \in 1..(i - 1) : originUrl[j] # ":"
        slashes == {k \in (colon + 3)..Len(originUrl) : originUrl[k] = "/"}
        hostEnd == IF slashes = {} THEN Len(originUrl)
                   ELSE (CHOOSE k \in slashes : \A l \in slashes : k <= l) - 1
    IN [protocol |-> SubSeq(originUrl, 1, colon), origin |-> SubSeq(originUrl, 1, hostEnd)]

prefixUrlSlash(urlPath, originUrl, customOptions) ==
    IF ~Truthy(urlPath) THEN NullValue ELSE Chs(<<"/">> \o urlPath.v)

prefixUrl(urlPath, originUrl, customOptions) ==
    LET options == Merge([protocol |-> Chs(<<"h", "t", "t", "p", "s">>)], customOptions)
    IN IF ~Truthy(urlPath) THEN NullValue
       ELSE IF StartsWith(urlPath.v, <<"h", "t", "t", "p">>) THEN urlPath
       ELSE IF Truthy(options.protocol) /\ StartsWith(urlPath.v, <<"/", "/">>)
       THEN Chs(WithoutColon(options.protocol.v) \o <<":">> \o urlPath.v)
       ELSE IF ~Truthy(originUrl) THEN urlPath
       ELSE IF StartsWith(urlPath.v, <<"/", "/">>)
       THEN Chs(URL(originUrl.v).protocol \o urlPath.v)
       ELSE IF StartsWith(urlPath.v, <<"/">>)
       THEN Chs(URL(originUrl.v).origin \o urlPath.v)
       ELSE IF StartsWith(urlPath.v, <<".", "/">>)
       THEN Chs(WithoutSlashes(originUrl.v) \o Tail(urlPath.v))
       ELSE Chs(URL(originUrl.v).origin \o <<"/">> \o urlPath.v)

\* http://a  https://a  data:a  mailto:a  ftp://a
AbsoluteUrls ==
    {<<"h", "t", "t", "p", ":", "/", "/", "a">>, <<"h", "t", "t", "p", "s", ":", "/", "/", "a">>,
     <<"d", "a", "t", "a", ":", "a">>, <<"m", "a", "i", "l", "t", "o", ":", "a">>,
     <<"f", "t", "p", ":", "/", "/", "a">>}
\* //a/p  /p  ./p  p  p/
RelativeUrls ==
    {<<"/", "/", "a", "/", "p">>, <<"/", "p">>, <<".", "/", "p">>, <<"p">>, <<"p", "/">>}
\* a URL fragment: null, the empty string, an absolute or a relative URL
Fragments == {NullValue, Chs(<<>>)} \cup {Chs(u) : u \in AbsoluteUrls \cup RelativeUrls}
\* no origin, http://o, https://o/d/
Origins ==
    {Undefined, Chs(<<"h", "t", "t", "p", ":", "/", "/", "o">>),
     Chs(<<"h", "t", "t", "p", "s", ":", "/", "/", "o", "/", "d", "/">>)}
\* no protocol option, 'http', 'http:', null
UrlOptions ==
    Optional("protocol", {Chs(<<"h", "t", "t", "p">>), Chs(<<"h", "t", "t", "p", ":">>), NullValue})
UrlCalls ==
    {[fn |-> "prefixUrl", urlPath |-> u, originUrl |-> o, customOptions |-> c] :
        u \in Fragments, o \in Origins, c \in UrlOptions}

PrefixUrlCall ==
    /\ call.fn = "prefixUrl"
    /\ Return(prefixUrl(call.urlPath, call.originUrl, call.customOptions))

InitUrl == InitCall(UrlCalls)

NextUrl == PrefixUrlCall

SpecUrl == InitUrl /\ [][NextUrl]_vars

UrlReturned == returned # NoCall /\ call.fn = "prefixUrl"
ProtocolRelative(urlPath) == Truthy(urlPath) /\ StartsWith(urlPath.v, <<"/", "/">>)

\* C23: prefixUrl returns an absolute URL unchanged, whatever its scheme,
\* the origin and the protocol option.
C23_AbsoluteUnchanged ==
    UrlReturned /\ call.urlPath \in {Chs(u) : u \in AbsoluteUrls} =>
        returned.value = call.urlPath

queryAttribute(context, selector, attribute, customOptions) ==
    queryContent(context, selector, Merge(customOptions, [attribute |-> attribute]))

queryAttributes(context, selector, attribute, customOptions) ==
    queryContents(context, selector, Merge(customOptions, [attribute |-> attribute]))

\* the characters of an attribute value, for prefixUrl
Characters(value) ==
    IF value.t = "string" THEN Chs(IF value.v = "" THEN <<>> ELSE <<value.v>>) ELSE value

\* options.origin
originOf(options) == IF Has(options, "origin") THEN options.origin ELSE Undefined

getImageUrl(context, selector, options) ==
    LET attributeKey == getAttributeKey(options)
        dataSrc == queryAttribute(context, selector, "data-src", options)
    IN IF attributeKey # Null THEN queryAttribute(context, selector, attributeKey, options)
       ELSE IF Truthy(dataSrc) THEN dataSrc
       ELSE queryAttribute(context, selector, "src", options)

\* dataLinks.lenght: a property arrays do not have
lenght(array) == Undefined

\* value > 0, false for undefined (NaN)
GreaterThanZero(value) == value.t = "number" /\ value.v > 0

getImageUrls(context, selector, options) ==
    LET attributeKey == getAttributeKey(options)
        dataLinks == queryAttributes(context, selector, "data-src", options)
    IN IF attributeKey # Null THEN queryAttributes(context, selector, attributeKey, options)
       ELSE IF GreaterThanZero(lenght(dataLinks)) THEN dataLinks
       ELSE queryAttributes(context, selector, "src", options)

queryImage(context, selector, customOptions) ==
    LET options == queryImageOptions(context, customOptions)
        imageUrl == getImageUrl(context, selector, options)
    IN prefixUrl(Characters(imageUrl), originOf(options), options)

queryImages(context, selector, customOptions) ==
    LET options == queryImageOptions(context, customOptions)
        imageUrls == getImageUrls(context, selector, options)
    IN [i \in DOMAIN imageUrls |-> prefixUrl(Characters(imageUrls[i]), originOf(options), options)]

ImageElements ==
    {("data-src" :> d) @@ ("src" :> c) @@ ("data-lazy" :> l) :
        d \in {Undefined, Str(""), Str("d")}, c \in {Undefined, Str("s")},
        l \in {Undefined, Str("l")}}
ImageOptions == {<<>>, [attr |-> "data-lazy"], [attribute |-> "data-lazy"]}
ImageCalls ==
    {[fn |-> op, context |-> [element |-> d, options |-> <<>>],
      selector |-> [kind |-> "css", matches |-> m], custom |-> o] :
        op \in {"image", "images"}, d \in [1..NumElems -> ImageElements], m \in ElementSets,
        o \in ImageOptions}

QueryImageCall ==
    /\ call.fn = "image"
    /\ Return(queryImage(call.context, call.selector, call.custom))

QueryImagesCall ==
    /\ call.fn = "images"
    /\ Return(queryImages(call.context, call.selector, call.custom))

InitImage == InitCall(ImageCalls)

NextImage == QueryImageCall \/ QueryImagesCall

SpecImage == InitImage /\ [][NextImage]_vars

\* the attribute value the precedence picks for an element: the explicit
\* attribute, otherwise a non-empty data-src, otherwise src
PickedAttribute(element, options) ==
    LET pick(key) == IF element[key] = Undefined THEN NullValue ELSE element[key]
    IN IF Has(options, "attr") THEN pick(options.attr)
       ELSE IF Has(options, "attribute") THEN pick(options.attribute)
       ELSE IF Truthy(pick("data-src")) THEN pick("data-src")
       ELSE pick("src")

\* C21: image returns the attribute picked by the precedence explicit
\* attribute > non-empty data-src > src for the first matched element, and
\* images returns it for every matched element that has one, in match order.
C21_ImageAttributePrecedence ==
    /\ returned # NoCall /\ call.fn = "image" =>
           returned.value =
               IF call.selector.matches = {} THEN NullValue
               ELSE LET e == call.context.element[Head(Ordered(call.selector.matches))]
                        picked == PickedAttribute(e, call.custom)
                    IN IF Truthy(picked) THEN Characters(picked) ELSE NullValue
    /\ returned # NoCall /\ call.fn = "images" =>
           returned.value =
               LET matched == Ordered(call.selector.matches)
                   picked == [i \in DOMAIN matched |->
                                 PickedAttribute(call.context.element[matched[i]], call.custom)]
                   kept == FilterBoolean(picked)
               IN [i \in DOMAIN kept |-> Characters(kept[i])]

(***************************************************************************)
(* Source sets.  srcset.parse gives the entries of a source set in input   *)
(* order, each with its url and, when the entry has the descriptor, its    *)
(* width or height (0: the entry has none).  Array.prototype.sort is the   *)
(* engine's: for an array this short it finds the run the array starts     *)
(* with, reverses it when it descends, and inserts the remaining entries   *)
(* by binary search.                                                       *)
(***************************************************************************)
\* the comparator of extractSourceSet; sourceB.description is a property
\* the entries do not have
compare(sourceA, sourceB, customOptions) ==
    IF Has(customOptions, "sort") /\ customOptions.sort = FALSE THEN 0
    ELSE IF Has(sourceB, "description") /\ sourceB.description = "fallback" THEN -1
    ELSE IF sourceA.width # 0 /\ sourceB.width # 0 /\ sourceA.width > sourceB.width THEN -1
    ELSE IF sourceA.height # 0 /\ sourceB.height # 0 /\ sourceA.height > sourceB.height THEN -1
    ELSE IF sourceA.width # 0 /\ sourceB.width # 0 /\ sourceA.width < sourceB.width THEN 1
    ELSE IF sourceA.height # 0 /\ sourceB.height # 0 /\ sourceA.height < sourceB.height THEN 1
    ELSE 0

Reverse(seq) == [i \in DOMAIN seq |-> seq[Len(seq) + 1 - i]]

RECURSIVE RunLength(_, _, _, _)
\* the length of the run the array starts with, idx the next entry to look at
RunLength(array, idx, isDescending, customOptions) ==
    IF idx > Len(array) THEN Len(array)
    ELSE LET order == compare(array[idx], array[idx - 1], customOptions)
         IN IF (isDescending /\ order >= 0) \/ (~isDescending /\ order < 0) THEN idx - 1
            ELSE RunLength(array, idx + 1, isDescending, customOptions)

RECURSIVE Search(_, _, _, _, _)
\* the place of the pivot among the entries left .. right - 1
Search(array, pivot, left, right, customOptions) ==
    IF left >= right THEN left
    ELSE LET mid == left + ((right - left) \div 2)
         IN IF compare(pivot, array[mid], customOptions) < 0
            THEN Search(array, pivot, left, mid, customOptions)
            ELSE Search(array, pivot, mid + 1, right, customOptions)

RECURSIVE BinaryInsertionSort(_, _, _)
BinaryInsertionSort(array, start, customOptions) ==
    IF start > Len(array) THEN array
    ELSE LET pivot == array[start]
             left == Search(array, pivot, 1, start, customOptions)
         IN BinaryInsertionSort(
                SubSeq(array, 1, left - 1) \o <<pivot>> \o SubSeq(array, left, start - 1)
                    \o SubSeq(array, start + 1, Len(array)),
                start + 1, customOptions)

\* sources.sort(comparator)
sort(array, customOptions) ==
    IF Len(array) < 2 THEN array
    ELSE LET isDescending == compare(array[2], array[1], customOptions) < 0
             run == RunLength(array, 3, isDescending, customOptions)
             ascending == IF isDescending
                          THEN Reverse(SubSeq(array, 1, run)) \o SubSeq(array, run + 1, Len(array))
                          ELSE array
         IN BinaryInsertionSort(ascending, run + 1, customOptions)

getSourceSetDescriptor(source) ==
    IF source.width # 0 THEN "w" ELSE IF source.height # 0 THEN "w" ELSE "fallback"

\* extractSourceSet of a non-empty source set, without includeDescriptor
extractSourceSet(sourceSet, customOptions) ==
    LET sources == [i \in DOMAIN sourceSet |->
                       [url |-> prefixUrl(sourceSet[i].url, originOf(customOptions), <<>>),
                        width |-> sourceSet[i].width, height |-> sourceSet[i].height,
                        descriptor |-> getSourceSetDescriptor(sourceSet[i])]]
        sorted == sort(sources, customOptions)
    IN [i \in DOMAIN sorted |-> prefixUrl(sorted[i].url, Undefined, <<>>)]

\* a.jpg 480w, b.jpg 800w, c.jpg, d.jpg 800w, e.jpg 100h
SourceEntries ==
    {[url |-> Chs(<<"a">>), width |-> 480, height |-> 0],
     [url |-> Chs(<<"b">>), width |-> 800, height |-> 0],
     [url |-> Chs(<<"c">>), width |-> 0, height |-> 0],
     [url |-> Chs(<<"d">>), width |-> 800, height |-> 0],
     [url |-> Chs(<<"e">>), width |-> 0, height |-> 100]}
\* the source sets: up to MaxSources entries, each at most once
SourceSets ==
    UNION {{l \in [1..n -> SourceEntries] : \A i, j \in 1..n : l[i] = l[j] => i = j} :
               n \in 1..MaxSources}
SourceSetCalls ==
    {[fn |-> "extractSourceSet", sourceSet |-> l, customOptions |-> o] :
        l \in SourceSets, o \in Optional("sort", {FALSE})}

ExtractSourceSetCall ==
    /\ call.fn = "extractSourceSet"
    /\ Return(extractSourceSet(call.sourceSet, call.customOptions))

InitSourceSet == InitCall(SourceSetCalls)

NextSourceSet == ExtractSourceSetCall

SpecSourceSet == InitSourceSet /\ [][NextSourceSet]_vars

\* the entry of the source set of the call with this url, and its place
PlaceOf(url) == CHOOSE i \in DOMAIN call.sourceSet : call.sourceSet[i].url = url
IsFallback(source) == source.width = 0 /\ source.height = 0
\* sourceA is before sourceB in the order fallback first, then descending
\* width, then descending height, ties in input order
Precedes(i, j) ==
    LET sourceA == call.sourceSet[i]
        sourceB == call.sourceSet[j]
    IN IF IsFallback(sourceA) # IsFallback(sourceB) THEN IsFallback(sourceA)
       ELSE IF sourceA.width # sourceB.width THEN sourceA.width > sourceB.width
       ELSE IF sourceA.height # sourceB.height THEN sourceA.height > sourceB.height
       ELSE i < j

\* C22: extractSourceSet returns the urls of all entries, the fallback
\* entry first, then by descending width, then by descending height, ties
\* in input order; so a.jpg 480w, b.jpg 800w, c.jpg gives c.jpg, b.jpg,
\* a.jpg in whatever order the three entries are written.
C22_FallbackFirstThenDescending ==
    returned # NoCall /\ call.fn = "extractSourceSet" /\ call.customOptions = <<>> =>
        /\ Len(returned.value) = Len(call.sourceSet)
        /\ \A i, j \in DOMAIN returned.value :
               i < j => Precedes(PlaceOf(returned.value[i]), PlaceOf(returned.value[j]))

(***************************************************************************)
(* Field extraction: number, json, duration, style, styleUrl and dates.    *)
(* A date text holds no date (x), one date (A) or two (A B); a date is the *)
(* minute of its local time, a Date the minute of its instant.             *)
(***************************************************************************)
queryNumber(context, selector, customOptions) ==
    extractNumber(queryContent(context, selector, customOptions))

queryJson(context, selector, customOptions) ==
    extractJson(queryContent(context, selector, customOptions))

\* durationString?.match(...): no text of the documents holds a duration
extractDuration(durationString) ==
    IF durationString.t # "string" THEN TypeError ELSE NullValue

\* without the match option; extractTimestamp finds no duration either
queryDuration(context, selector, customOptions) ==
    LET durationString == queryContent(context, selector, customOptions)
    IN IF ~Truthy(durationString) THEN NullValue ELSE extractDuration(durationString)

\* el.getAttribute('style').replace(...): raises for an element without the
\* style attribute
removeStyleFunctionSpaces(el) ==
    IF getAttribute(el, "style") = NullValue THEN TypeError ELSE NullValue

\* element.style.getPropertyValue(styleAttribute) / element.style._values
styleOf(element, options) ==
    IF ~Has(options, "styleAttribute") THEN [t |-> "object"]
    ELSE IF element.style = Str("s") /\ options.styleAttribute = "background"
    THEN Str("url(u)")
    ELSE Str("")

queryStyle(context, selector, customOptions) ==
    LET options == Merge([attribute |-> "style", attemptBugfix |-> TRUE], customOptions)
        element == queryElement(context, <<selector>>)
    IN IF element = NullElement THEN NullValue
       ELSE IF options.attemptBugfix /\ removeStyleFunctionSpaces(context.element[element]) = TypeError
       THEN TypeError
       ELSE styleOf(context.element[element], options)

queryStyles(context, selector, customOptions) ==
    LET options == Merge(customOptions, [attribute |-> "style"])
        elements == queryElements(context, <<selector>>, options)
    IN IF \E i \in DOMAIN elements :
              removeStyleFunctionSpaces(context.element[elements[i]]) = TypeError
       THEN TypeError
       ELSE FilterBoolean([i \in DOMAIN elements |-> styleOf(context.element[elements[i]], options)])

\* style.match(/url\(['"]?(.*)['"]?\)/)?.[1]
queryStyleUrl(context, selector, styleAttribute, customOptions) ==
    LET options == Merge([styleAttribute |-> styleAttribute], customOptions)
        style == queryStyle(context, selector, options)
    IN IF style = TypeError THEN TypeError
       ELSE IF ~Truthy(style) THEN NullValue
       ELSE IF style = Str("url(u)") THEN Str("u") ELSE Undefined

\* the dates the default match finds in a text
DatesIn(dateString) ==
    CASE dateString = "A" -> <<600>>
      [] dateString = "A B" -> <<600, 1200>>
      [] OTHER -> <<>>

\* the minutes a timezone is ahead of UTC
Offset(timezone) == IF timezone = "CET" THEN 60 ELSE 0

Date(minute) == [t |-> "date", v |-> minute]

extractDate(dateString, format, customOptions) ==
    LET options == Merge([match |-> "default", matchIndex |-> 0, timezone |-> "UTC"], customOptions)
        \* a text matched as a whole is parsed from its start
        dateStamp == IF options.match = "default" THEN DatesIn(dateString.v)
                     ELSE IF DatesIn(dateString.v) = <<>> THEN <<>>
                     ELSE <<Head(DatesIn(dateString.v))>>
        index == IF options.match = "default" THEN options.matchIndex + 1 ELSE 1
    IN IF ~Truthy(dateString) THEN NullValue
       ELSE IF format = Null THEN (IF handleError THEN RaisedError("NO_DATE_FORMAT") ELSE NullValue)
       ELSE IF dateString.t # "string" THEN TypeError
       ELSE IF index \in DOMAIN dateStamp
       THEN Date(dateStamp[index] - Offset(options.timezone))
       ELSE NullValue

queryDate(context, selector, format, customOptions) ==
    extractDate(queryContent(context, selector, customOptions), format,
                Merge(context.options, customOptions))

queryDates(context, selector, format, customOptions) ==
    LET dateStrings == queryContents(context, selector, customOptions)
    IN [i \in DOMAIN dateStrings |->
           extractDate(dateStrings[i], format,
                       Merge(context.options, [customOptions |-> customOptions]))]

FieldElements == [text : RawTexts, style : {Undefined, Str(""), Str("s")}, count : {2}]
FieldOptions == {<<>>, [attribute |-> "childElementCount"], [styleAttribute |-> "background"]}
FieldCalls ==
    {[fn |-> op, context |-> [element |-> d, options |-> <<>>],
      selector |-> [kind |-> "css", matches |-> m], custom |-> o] :
        op \in {"number", "json", "duration", "style", "styles", "styleUrl"},
        d \in [1..NumElems -> FieldElements], m \in ElementSets, o \in FieldOptions}

DateTexts == {"", "x", "A", "A B"}
DateOptions ==
    {t @@ m @@ i : t \in Optional("timezone", {"CET"}), m \in Optional("match", {"none"}),
                   i \in Optional("matchIndex", {1})}
DateCalls ==
    {[fn |-> op, context |-> [element |-> d, options |-> <<>>], format |-> "F",
      selector |-> [kind |-> "css", matches |-> m], custom |-> o] :
        op \in {"date", "dates"}, d \in [1..NumElems -> [text : DateTexts]], m \in ElementSets,
        o \in DateOptions}

FieldCall ==
    /\ call.fn \in {"number", "json", "duration", "style", "styles", "styleUrl"}
    /\ Return(CASE call.fn = "number" -> queryNumber(call.context, call.selector, call.custom)
                 [] call.fn = "json" -> queryJson(call.context, call.selector, call.custom)
                 [] call.fn = "duration" -> queryDuration(call.context, call.selector, call.custom)
                 [] call.fn = "style" -> queryStyle(call.context, call.selector, call.custom)
                 [] call.fn = "styles" -> queryStyles(call.context, call.selector, call.custom)
                 [] call.fn = "styleUrl" ->
                     queryStyleUrl(call.context, call.selector, "background", call.custom))

QueryDateCall ==
    /\ call.fn = "date"
    /\ Return(queryDate(call.context, call.selector, call.format, call.custom))

QueryDatesCall ==
    /\ call.fn = "dates"
    /\ Return(queryDates(call.context, call.selector, call.format, call.custom))

InitField == InitCall(FieldCalls \cup DateCalls)

NextField == FieldCall \/ QueryDateCall \/ QueryDatesCall

SpecField == InitField /\ [][NextField]_vars

FieldOps == {"number", "json", "duration", "style", "styles", "styleUrl", "date", "dates"}

\* C25: number, json, duration, style, styles, styleUrl, date and dates
\* (with a format) raise no error, whatever the text or the attribute of
\* the matched element: missing, empty, malformed or not a string.
C25_ExtractionNeverRaises ==
    returned # NoCall /\ call.fn \in FieldOps =>
        returned.value \notin {TypeError, RaisedError("NO_DATE_FORMAT")}

\* C30: every entry of dates(selector, format, options) is what date
\* returns, with the same format and options, for the matched element the
\* entry comes from (the matched elements with content, in match order).
C30_DatesAgreeWithDate ==
    returned # NoCall /\ call.fn = "dates" =>
        LET only(e) == [kind |-> "css", matches |-> {e}]
            elements == SelectSeq(Ordered(call.selector.matches),
                            LAMBDA e : Truthy(queryContent(call.context, only(e), call.custom)))
        IN /\ Len(returned.value) = Len(elements)
           /\ \A i \in DOMAIN elements :
                  returned.value[i] =
                      queryDate(call.context, only(elements[i]), call.format, call.custom)

(***************************************************************************)
(* init and initAll.  The input is a sequence of nodes, an HTML text, a    *)
(* node or something else; the nodes are the document and its elements,    *)
(* every element holding the elements after it.                            *)
(***************************************************************************)
DocumentNode == NumElems + 1
\* the elements inside a node
Under(node) == IF node = DocumentNode THEN 1..NumElems ELSE {e \in 1..NumElems : e > node}
\* a selector as it matches inside a node
Within(node, selector) == [selector EXCEPT !.matches = @ \cap Under(node)]

\* the selector argument: omitted, or a list of selectors (a single selector
\* is the list of it)
Omitted == [given |-> FALSE]
Given(selectors) == [given |-> TRUE, list |-> selectors]

Array(seq) == [t |-> "array", v |-> seq]
Context(element, options) == [t |-> "context", element |-> element, options |-> options]

\* init of a node (or null) of a sequence of nodes
init(elementOrHtml, selector, options) ==
    IF elementOrHtml = NullElement THEN NullValue
    ELSE LET element ==
                 IF selector.given
                 THEN queryElement([element |-> elementOrHtml],
                                   [i \in DOMAIN selector.list |->
                                       Within(elementOrHtml, selector.list[i])])
                 ELSE elementOrHtml
         IN IF element = NullElement THEN NullValue ELSE Context(element, options)

initAll(context, selector, options) ==
    CASE context.kind = "array" ->
             Array([i \in DOMAIN context.nodes |-> init(context.nodes[i], selector, options)])
      [] context.kind \in {"text", "node"} ->
             \* an HTML text is parsed and its document is the node
             LET node == IF context.kind = "text" THEN DocumentNode ELSE context.node
             IN IF ~selector.given
                \* queryElements returns the node itself, which has no map
                THEN TypeError
                ELSE LET targets ==
                             queryElements([element |-> node],
                                           [i \in DOMAIN selector.list |->
                                               Within(node, selector.list[i])], <<>>)
                     IN Array([i \in DOMAIN targets |-> init(targets[i], Omitted, options)])
      [] OTHER -> IF handleError THEN RaisedError("INVALID_CONTEXT") ELSE NullValue

InitAllContexts ==
    {[kind |-> "text"], [kind |-> "invalid"]}
        \cup {[kind |-> "node", node |-> n] : n \in 1..DocumentNode}
        \cup {[kind |-> "array", nodes |-> l] :
                  l \in UNION {[1..n -> 0..NumElems] : n \in 0..NumElems}}
InitAllCalls ==
    {[fn |-> "initAll", context |-> c, selector |-> sel, options |-> <<>>] :
        c \in InitAllContexts, sel \in {Omitted} \cup {Given(l) : l \in SelectorLists}}

InitAllCall ==
    /\ call.fn = "initAll"
    /\ Return(initAll(call.context, call.selector, call.options))

InitInitAll == InitCall(InitAllCalls)

NextInitAll == InitAllCall

SpecInitAll == InitInitAll /\ [][NextInitAll]_vars

\* the elements a selector argument resolves to inside a node: the node
\* itself when the selector is omitted, otherwise the matches of the
\* selectors in list order, each element once
Resolved(node, selector) ==
    IF ~selector.given THEN <<node>>
    ELSE FirstOccurrences(
             Concat([i \in DOMAIN selector.list |-> Within(node, selector.list[i])]))

\* C26: for a node or an HTML text initAll returns one Context for each
\* element the selector argument (a selector, a list, or omitted) resolves
\* to, in match order, each with a root element; for a sequence of nodes
\* it returns init of each; for any other input it raises or returns null
\* as handleError decides.
C26_OneContextPerMatch ==
    returned # NoCall /\ call.fn = "initAll" =>
        CASE call.context.kind \in {"text", "node"} ->
                 LET node == IF call.context.kind = "text" THEN DocumentNode
                             ELSE call.context.node
                     resolved == Resolved(node, call.selector)
                 IN returned.value =
                        Array([i \in DOMAIN resolved |-> Context(resolved[i], call.options)])
          [] call.context.kind = "array" ->
                 returned.value =
                     Array([i \in DOMAIN call.context.nodes |->
                               init(call.context.nodes[i], call.selector, call.options)])
          [] OTHER ->
                 returned.value = IF globalOptions.throwErrors
                                  THEN RaisedError("INVALID_CONTEXT") ELSE NullValue

(***************************************************************************)
(* getAgent as a function of the configured proxy, the options of the call *)
(* and the hostname of the URL.                                            *)
(***************************************************************************)
ProxyConfigs ==
    {<<>>} \cup
    {[proxy |-> [host |-> "127.0.0.1", port |-> 8888] @@ e @@ u @@ h] :
        e \in Optional("enable", BOOLEAN), u \in Optional("use", BOOLEAN),
        h \in Optional("hostnames", {{"a"}})}
ProxyOptions ==
    {<<>>, [useProxy |-> TRUE], [useProxy |-> FALSE], [proxy |-> [use |-> TRUE]],
     [proxy |-> [use |-> FALSE]], [proxy |-> [enable |-> FALSE]]}

AgentCalls ==
    {[fn |-> "getAgent", hostname |-> u, config |-> g, custom |-> o,
      options |-> merge(merge(RequestDefaults, merge(settings, g)), o)] :
        u \in LimiterUrls, g \in ProxyConfigs, o \in ProxyOptions}

InitAgent == InitCall(AgentCalls)

GetAgentCall ==
    /\ call.fn = "getAgent"
    /\ Return(getAgent(call.options, call.hostname))

NextAgent == GetAgentCall

SpecAgent == InitAgent /\ [][NextAgent]_vars

\* the conditions of the proxy decision, read off the options of the call
ProxyPresent(o) == Has(o, "proxy")
ProxyDisabled(o) == Has(o, "proxy") /\ Has(o.proxy, "enable") /\ o.proxy.enable = FALSE
OverrideRequests(o) == Has(o, "useProxy") /\ o.useProxy
UseForAll(o) == Has(o, "proxy") /\ Has(o.proxy, "use") /\ o.proxy.use
Listed(o, hostname) == Has(o, "proxy") /\ Has(o.proxy, "hostnames") /\ hostname \in o.proxy.hostnames

\* C15: a request is proxied exactly when a proxy configuration is present,
\* proxying is not disabled (enable: false), and the call's override requests
\* it or the use-for-all flag is set or the hostname is listed; with enable:
\* true, use: false and a hostnames list, the listed hostnames are proxied and
\* the others are not.
C15_ProxyDecision ==
    returned # NoCall =>
        LET o == call.options
            wanted == OverrideRequests(o) \/ UseForAll(o) \/ Listed(o, call.hostname)
        IN /\ ~ProxyPresent(o) => ~returned.value
           /\ ProxyDisabled(o) => ~returned.value
           /\ ProxyPresent(o) /\ ~ProxyDisabled(o) /\ wanted => returned.value
           /\ ProxyPresent(o) /\ ~ProxyDisabled(o) /\ ~wanted => ~returned.value
           /\ /\ call.custom = <<>>
              /\ Has(call.config, "proxy")
              /\ Has(call.config.proxy, "enable") /\ call.config.proxy.enable
              /\ Has(call.config.proxy, "use") /\ ~call.config.proxy.use
              /\ Has(call.config.proxy, "hostnames")
              => (returned.value <=> call.hostname \in call.config.proxy.hostnames)

\* C15 (witness): with enable: true, use: false and a hostnames list, a call
\* for a listed hostname was proxied
C15_Witness ==
    /\ returned # NoCall
    /\ call.custom = <<>>
    /\ Has(call.config, "proxy")
    /\ Has(call.config.proxy, "enable") /\ call.config.proxy.enable
    /\ Has(call.config.proxy, "use") /\ ~call.config.proxy.use
    /\ Has(call.config.proxy, "hostnames") /\ call.hostname \in call.config.proxy.hostnames
    /\ returned.value

(***************************************************************************)
(* Properties of the limiter.                                              *)
(***************************************************************************)
Started == {r \in Reqs : req[r].pc # "idle"}
InLimiter(r) == req[r].pc \in {"awaitClient", "page", "transport"}
TupleOf(r) == <<req[r].interval, req[r].concurrency>>
ExecutingFor(t) == {q \in Reqs : InLimiter(q) /\ TupleOf(q) = t}

\* C7: of the requests, plain or browser, that resolved one (interval,
\* concurrency) tuple, at most `concurrency` have their scheduled operation
\* executing.
C7_AtMostConcurrencyExecuting ==
    \A r \in Started : Cardinality(ExecutingFor(TupleOf(r))) <= req[r].concurrency

\* C7 (witness): a plain and a browser request share a tuple whose slots are
\* all taken, and one of the two waits for the other
C7_Witness ==
    \E r1, r2 \in Started :
        /\ TupleOf(r1) = TupleOf(r2)
        /\ req[r1].mode # req[r2].mode
        /\ InLimiter(r1)
        /\ req[r2].pc = "queued"
        /\ Cardinality(ExecutingFor(TupleOf(r1))) = req[r1].concurrency

\* C8: two calls have the same scheduler instance exactly when their resolved
\* tuples are equal, and a tuple's scheduler, once created, is never replaced.
C8_OneSchedulerPerTuple ==
    /\ [](\A r1, r2 \in Started : (TupleOf(r1) = TupleOf(r2)) <=> (req[r1].limiter = req[r2].limiter))
    /\ [][\A t \in DOMAIN limiters : t \in DOMAIN limiters' /\ limiters'[t] = limiters[t]]_vars

\* C8 (witness): calls of different modes, to different hostnames and with
\* different limit profiles share the scheduler of their common tuple, which
\* is not the only scheduler of the registry
C8_Witness ==
    \E r1, r2 \in Started :
        /\ req[r1].mode # req[r2].mode
        /\ req[r1].hostname # req[r2].hostname
        /\ Has(req[r1].options, "limiter") /\ req[r1].options.limiter = "browser"
        /\ ~Has(req[r2].options, "limiter")
        /\ TupleOf(r1) = TupleOf(r2)
        /\ req[r1].limiter = req[r2].limiter
        /\ req[r1].limiter # 1

\* the limit profile a call names: its limiter option, and without one
\* `browser` for a browser request and `default` for a plain one
ProfileOf(c) ==
    IF Has(c.custom, "limiter") THEN c.custom.limiter
    ELSE IF c.mode = "browser" THEN "browser" ELSE "default"
HostDefines(c) ==
    /\ Has(c.config, "limits")
    /\ Has(c.config.limits, c.hostname)
    /\ Has(c.config.limits[c.hostname], c.prop)
HostDisabled(c) ==
    /\ Has(c.config, "limits")
    /\ Has(c.config.limits, c.hostname)
    /\ Has(c.config.limits[c.hostname], "enable")
    /\ c.config.limits[c.hostname].enable = FALSE

\* C9: interval and concurrency are each resolved as the option of the call
\* when it is defined; otherwise as the value configured for the hostname when
\* its configuration defines it and does not have enable: false; otherwise as
\* the value of the named limit profile.
C9_LimiterValuePrecedence ==
    returned # NoCall =>
        /\ Has(call.custom, call.prop) => returned.value = call.custom[call.prop]
        /\ ~Has(call.custom, call.prop) /\ HostDefines(call) /\ ~HostDisabled(call) =>
              returned.value = call.config.limits[call.hostname][call.prop]
        /\ ~Has(call.custom, call.prop) /\ ~(HostDefines(call) /\ ~HostDisabled(call)) =>
              returned.value = settings.limits[ProfileOf(call)][call.prop]

\* C9 (witness): a value resolved from the hostname's configuration, and a
\* value resolved from the profile because the hostname has enable: false
C9_Witness ==
    /\ returned # NoCall
    /\ ~Has(call.custom, call.prop)
    /\ HostDefines(call)
    /\ HostDisabled(call)
    /\ returned.value = settings.limits[ProfileOf(call)][call.prop]

(***************************************************************************)
(* Properties of plain requests.                                           *)
(***************************************************************************)
\* the requests that got a response with a status that is not 2xx
NotOk(r) ==
    /\ req[r].mode = "plain"
    /\ req[r].pc \in {"done", "raised"}
    /\ req[r].res.type = "response"
    /\ ~(req[r].res.status >= 200 /\ req[r].res.status < 300)

DiagnosticFields == {"status", "statusText", "headers", "response"}

\* C10 (as stated): a response that is not 2xx gives an ok: false envelope
\* when throwErrors is false, and raises an error tagged HTTP_NOT_OK that
\* carries the envelope's diagnostic data when throwErrors is true.
C10_NotOkRaisesWithDiagnostics ==
    \A r \in Reqs : NotOk(r) =>
        IF globalOptions.throwErrors
        THEN /\ req[r].pc = "raised"
             /\ req[r].result.code = "HTTP_NOT_OK"
             /\ DiagnosticFields \subseteq req[r].result.fields
        ELSE /\ req[r].pc = "done"
             /\ req[r].result.type = "envelope"
             /\ ~req[r].result.ok
             /\ DiagnosticFields \subseteq req[r].result.fields

\* C10 (amended): a response that is not 2xx gives an ok: false envelope with
\* the diagnostic data when throwErrors is false, and raises an error tagged
\* HTTP_NOT_OK when throwErrors is true; the error carries its message and
\* the tag, and none of the envelope's diagnostic fields.
C10_NotOkRaisesTagged ==
    \A r \in Reqs : NotOk(r) =>
        IF globalOptions.throwErrors
        THEN /\ req[r].pc = "raised"
             /\ req[r].result.code = "HTTP_NOT_OK"
             /\ req[r].result.fields = {"message", "code"}
        ELSE /\ req[r].pc = "done"
             /\ req[r].result.type = "envelope"
             /\ ~req[r].result.ok
             /\ req[r].result.status = req[r].res.status
             /\ DiagnosticFields \subseteq req[r].result.fields

\* C10 (witness): a 404 response has been raised under throwErrors
C10_Witness ==
    \E r \in Reqs :
        /\ NotOk(r)
        /\ globalOptions.throwErrors
        /\ req[r].res.status = 404
        /\ req[r].pc = "raised"

\* the transport calls a request call may make
MaxTransports(r) ==
    IF req[r].options.interface = "request" /\ req[r].options.followRedirects
    THEN req[r].options.maxRedirects + 1
    ELSE 1

View(r) == <<req[r].options, req[r].limiter, req[r].interval, req[r].concurrency,
             req[r].isProxied>>
InFlight(r) == req[r].pc \notin {"idle", "done", "raised"}
\* the step issues call r again for a redirect
Reissues(r) == req[r].pc = "transport" /\ req'[r].pc = "queued"

\* C16 (as stated): a call in flight keeps the view it resolved at its start,
\* whatever is configured meanwhile: its options, limiter and proxy decision
\* do not change, and a response that is not 2xx is raised exactly when
\* throwErrors was set in the configuration the call was issued under.
C16_InFlightKeepsView ==
    /\ [][\A r \in Reqs : InFlight(r) => View(r)' = View(r)]_vars
    /\ [](\A r \in Reqs : NotOk(r) => (req[r].pc = "raised" <=> req[r].options.throwErrors))

\* C16 (amended): a configure call changes nothing of the calls in flight, and
\* a call keeps its options, limiter and proxy decision until it returns or
\* is issued again for a redirect; the call issued for a redirect keeps every
\* option the call had and takes from the configuration of that moment the
\* options the call did not have; a response that is not 2xx is raised exactly
\* when throwErrors is set in the configuration of the moment the response is
\* handled.
C16_InFlightKeepsOptions ==
    /\ [][\A r \in Reqs : InFlight(r) /\ ~Reissues(r) => View(r)' = View(r)]_vars
    /\ [][\A r \in Reqs : Reissues(r) =>
            /\ \A p \in DOMAIN req[r].options \ {"limits", "proxy"} :
                  req'[r].options[p] = req[r].options[p]
            /\ \A p \in DOMAIN req'[r].options \ DOMAIN req[r].options :
                  req'[r].options[p] = globalOptions[p]]_vars
    /\ [][\A r \in Reqs : req[r].pc = "body" /\ NotOk(r)' =>
            (req'[r].pc = "raised" <=> globalOptions.throwErrors)]_vars

\* C16 (witness): a call issued under throwErrors false has raised for a
\* response that is not 2xx
C16_Witness ==
    \E r \in Reqs : NotOk(r) /\ req[r].pc = "raised" /\ ~req[r].options.throwErrors

(***************************************************************************)
(* Properties of the outcomes of requests.                                 *)
(***************************************************************************)
\* the calls that have returned or raised
Returned(r) == req[r].pc \in {"done", "raised"}
\* the calls whose transport call was rejected / whose navigation failed
TransportFailed(r) == Returned(r) /\ req[r].res.type \in {"rejection", "navigationError"}

\* C11: with throwErrors false, a call whose transport call was rejected
\* (plain mode, either interface) or whose navigation failed (browser mode)
\* returns an envelope with ok: false and does not raise.
C11_TransportFailureReturnsEnvelope ==
    \A r \in Reqs :
        TransportFailed(r) /\ ~globalOptions.throwErrors =>
            /\ req[r].pc = "done"
            /\ req[r].result.type = "envelope"
            /\ ~req[r].result.ok

Count(seq, e) == Cardinality({i \in DOMAIN seq : seq[i] = e})
Is2xx(status) == status >= 200 /\ status < 300

\* C12: a call emits requestInit first; a call that completed with a 2xx
\* response has emitted requestSuccess once and requestError never, a call
\* that completed with a response that is not 2xx has emitted requestError once
\* and requestSuccess never.
C12_OneTerminalEvent ==
    \A r \in Reqs :
        /\ req[r].pc # "idle" => req[r].events[1] = "requestInit"
        /\ req[r].pc = "done" /\ req[r].res.type = "response" =>
              IF Is2xx(req[r].res.status)
              THEN Count(req[r].events, "requestSuccess") = 1 /\ Count(req[r].events, "requestError") = 0
              ELSE Count(req[r].events, "requestError") = 1 /\ Count(req[r].events, "requestSuccess") = 0

\* the status of an envelope is a number in [200, 300) (it is null in the
\* navigation error envelope)
HasStatus2xx(e) == IF "status" \in e.nulls THEN FALSE ELSE Is2xx(e.status)
Envelopes == {req[r].result : r \in {q \in Reqs : req[q].pc = "done"}}

Acquired == {r \in Reqs : req[r].client # 0}
KeyOf(r) == handle[req[r].client].key
\* the acquisitions for a key made while the first launch for it was pending
FirstWave(key) == {r \in Acquired : req[r].firstWave /\ KeyOf(r) = key}
PooledKeys == {handle[h].key : h \in {g \in DOMAIN handle : handle[g].key[1] # Null}}
Launching(h) == handle[h].launchers \in {"browser", "context"}

FailureResults ==
    {NavigationErrorEnvelope, NotOkEnvelope(404), ControlErrorEnvelope(200),
     RaisedError("HTTP_NOT_OK")}
Failed(r) == req[r].pc \in {"done", "raised"} /\ req[r].result \in FailureResults
Finished(r) == req[r].pc \in {"idle", "done", "raised"}

\* C3: a browser request that ended in a failure outcome has given back its
\* count on the handle; when no request is in flight every handle has active
\* count 0 and every retired or single-use handle that was used by a failed
\* request has its process closed.
C3_FailureReleasesHandle ==
    /\ \A r \in Reqs : Failed(r) => ~req[r].holds
    /\ (\A r \in Reqs : Finished(r)) =>
          \A r \in Reqs : Failed(r) =>
              LET h == req[r].client IN
              /\ handle[h].active = 0
              /\ handle[h].retired \/ handle[h].key[1] = Null => handle[h].browser = "closed"

\* C4: no pooled handle is handed out to more than clientRetirement requests.
C4_HandedOutAtMostRetirement ==
    \A h \in DOMAIN handle :
        handle[h].key[1] # Null =>
            Cardinality({r \in Reqs : req[r].client = h}) <= clientRetirement(globalOptions)

\* C5: the process launched for a request made with client: null is not in the
\* registry, is used by no other request, and is closed once the request has
\* returned.
C5_SingleUseClosed ==
    \A r \in Reqs :
        req[r].mode = "browser" /\ req[r].options.client = Null /\ req[r].client # 0 =>
            /\ req[r].client \notin Registered
            /\ \A q \in Reqs : q # r => req[q].client # req[r].client
            /\ req[r].pc = "done" => handle[req[r].client].browser = "closed"

\* C27: once a request has failed on the rejected launch of a handle, the
\* handle is not in the registry, so that the next acquisition for its key
\* starts a new launch.
C27_FailedLaunchLeavesRegistry ==
    \A r \in Reqs :
        req[r].pc = "raised" /\ req[r].result = ForeignError("LaunchError") =>
            req[r].client \notin Registered

\* C28: once closeAllBrowsers has completed, the registry maps no scope key
\* to a handle whose process is closed, and no request gets a page from a
\* process closeAllBrowsers has closed.
C28_NoClosedProcessRegistered ==
    closeAll.calls > 0 /\ ~closeAll.raised =>
        /\ \A h \in Registered : handle[h].browser # "closed"
        /\ \A r \in Reqs : req[r].usedClosed # "closeAllBrowsers"

\* C29: a request that waits for a slot of its scheduler holds none, every
\* redirect hop is submitted by a request that was executing and has given
\* its slot back, and every request submitted to a scheduler of concurrency
\* 1 completes.
C29_NoWaitWhileHolding ==
    /\ [](\A r \in Reqs : req[r].pc = "queued" => r \notin Executing(req[r].limiter))
    /\ [][\A r \in Reqs :
            req'[r].pc = "queued" /\ req'[r].redirects > req[r].redirects =>
                /\ req[r].pc = "transport"
                /\ Cardinality(Executing(req[r].limiter)')
                       = Cardinality(Executing(req[r].limiter)) - 1]_vars
    /\ \A r \in Reqs : (req[r].pc = "queued") ~> (req[r].pc \in {"done", "raised"})

\* C29 (witness): a redirect hop waits for the one slot of its scheduler
\* while another request has it
C29_Witness ==
    \E r, q \in Reqs :
        /\ r # q
        /\ req[r].pc = "queued" /\ req[r].redirects > 0
        /\ req[q].limiter = req[r].limiter /\ req[q].pc = "transport"
        /\ bottleneck[req[r].limiter].maxConcurrent = 1

\* C6: a closeAllBrowsers call does not raise and leaves the process of every
\* handle that was registered when it was called closed.
C6_CloseAllClosesRegistered ==
    closeAll.calls > 0 =>
        /\ ~closeAll.raised
        /\ \A h \in closeAll.registered : handle[h].browser = "closed"

====
